---- MODULE Spec2Model ----
(***************************************************************************)
(* Model of src/src/types.rs: the Avro value representation, Value::validate *)
(* and the schema resolution algorithm Value::resolve.                     *)
(*                                                                         *)
(* Representation.                                                         *)
(*  - An i32 is a TLC integer.                                             *)
(*  - An i64 x is the pair [q, r] with x = q * 2^31 + r and 0 <= r < 2^31  *)
(*    (TLC integers are 32 bits wide, so 64-bit values are kept as two     *)
(*    digits of base 2^31).  Date payloads are i64 too.                    *)
(*  - An f32 / f64 payload is an integer-valued real kept as an i64 pair;  *)
(*    the model's floating-point inputs are integer valued (no fractions,  *)
(*    no NaN, no infinities).                                              *)
(*  - A Rust String is the sequence of its Unicode code points; a Vec<u8>  *)
(*    is a sequence of 0..255.                                             *)
(*  - Option<T> is a sequence of length 0 (None) or 1 (Some).              *)
(*  - A HashMap<String, T> is a function whose domain is a set of strings. *)
(*  - Result<T, Error> is [ok |-> TRUE, val |-> t] or [ok |-> FALSE,       *)
(*    errs |-> E] where E is the set of errors the call can return (more   *)
(*    than one only where the failing element is picked by HashMap         *)
(*    iteration order).                                                    *)
(***************************************************************************)
EXTENDS Integers, Sequences, FiniteSets, TLC

\* ------------------------------------------------------------------ numbers

\* i32::MAX, written so that no intermediate value leaves TLC's integers.
MaxI32 == (2^30 - 1) + 2^30

\* u8::MAX
U8Max == 255

I64(q, r) == [q |-> q, r |-> r]

\* i64::from(n) for an i32 n (sign extension).
I64FromI32(n) == IF n >= 0 THEN I64(0, n) ELSE I64(-1, (n + MaxI32) + 1)

\* `x as i32` for an i64 x: the low 32 bits of x, read as two's complement.
\* The low 32 bits of q * 2^31 + r are (q mod 2) * 2^31 + r.
I64AsI32(x) == IF x.q % 2 = 0 THEN x.r ELSE (x.r - MaxI32) - 1

I64Neg(x) == IF x.r = 0 THEN I64(0 - x.q, 0) ELSE I64((0 - x.q) - 1, (MaxI32 - x.r) + 1)

\* Number of significant bits of 0 <= n < 2^31.
BitLen(n) == IF n = 0 THEN 0 ELSE CHOOSE k \in 1..31 : n >= 2^(k - 1) /\ (k = 31 \/ n < 2^k)

\* top rounded to nearest, ties to even, given the remainder rem of a
\* division by 2 * half.
RoundTiesEven(top, rem, half) == IF rem > half \/ (rem = half /\ top % 2 = 1) THEN top + 1 ELSE top

\* A non-negative integer x rounded to p significant bits (p = 24 for f32,
\* p = 53 for f64), round-to-nearest-even as the `as f32` / `as f64` casts do.
RoundMagnitude(x, p) ==
    LET bits == IF x.q = 0 THEN BitLen(x.r) ELSE BitLen(x.q) + 31 IN
    IF bits <= p THEN x
    ELSE IF x.q = 0
    THEN LET s == bits - p
             t == RoundTiesEven(x.r \div 2^s, x.r % 2^s, 2^(s - 1))
         IN  IF bits = 31 /\ t = 2^p THEN I64(1, 0) ELSE I64(0, t * 2^s)
    ELSE LET s == bits - p
             k == 31 - s
             t == RoundTiesEven((x.q * 2^k) + (x.r \div 2^s), x.r % 2^s, 2^(s - 1))
         IN  I64(t \div 2^k, (t % 2^k) * 2^s)

RoundToBits(x, p) == IF x.q < 0 THEN I64Neg(RoundMagnitude(I64Neg(x), p)) ELSE RoundMagnitude(x, p)

\* `n as f32`, `x as f32` (i32, i64 or f64 source): 24 significant bits.
AsF32(x) == RoundToBits(x, 24)

\* `n as f64`, f64::from: 53 significant bits.
AsF64(x) == RoundToBits(x, 53)

\* ------------------------------------------------------------------ UTF-8

RECURSIVE Utf8Encode(_)
\* String::into_bytes: the UTF-8 encoding of a sequence of code points.
Utf8Encode(cps) ==
    IF cps = <<>> THEN <<>>
    ELSE LET c == Head(cps)
             enc == IF c < 128 THEN <<c>>
                    ELSE IF c < 2048 THEN <<192 + (c \div 64), 128 + (c % 64)>>
                    ELSE IF c < 65536
                    THEN <<224 + (c \div 4096), 128 + ((c \div 64) % 64), 128 + (c % 64)>>
                    ELSE <<240 + (c \div 262144), 128 + ((c \div 4096) % 64),
                           128 + ((c \div 64) % 64), 128 + (c % 64)>>
         IN  enc \o Utf8Encode(Tail(cps))

IsCont(b) == b >= 128 /\ b <= 191

\* Length of the well-formed UTF-8 sequence that starts bytes, 0 if none does.
Utf8SeqLen(bytes) ==
    LET n == Len(bytes)
        b1 == bytes[1]
    IN  IF b1 < 128 THEN 1
        ELSE IF b1 >= 194 /\ b1 <= 223
        THEN IF n >= 2 /\ IsCont(bytes[2]) THEN 2 ELSE 0
        ELSE IF b1 >= 224 /\ b1 <= 239
        THEN IF n >= 3 /\ IsCont(bytes[2]) /\ IsCont(bytes[3])
                /\ (b1 = 224 => bytes[2] >= 160) /\ (b1 = 237 => bytes[2] <= 159)
             THEN 3 ELSE 0
        ELSE IF b1 >= 240 /\ b1 <= 244
        THEN IF n >= 4 /\ IsCont(bytes[2]) /\ IsCont(bytes[3]) /\ IsCont(bytes[4])
                /\ (b1 = 240 => bytes[2] >= 144) /\ (b1 = 244 => bytes[2] <= 143)
             THEN 4 ELSE 0
        ELSE 0

Utf8CodePoint(bytes, k) ==
    IF k = 1 THEN bytes[1]
    ELSE IF k = 2 THEN ((bytes[1] - 192) * 64) + (bytes[2] - 128)
    ELSE IF k = 3 THEN ((bytes[1] - 224) * 4096) + ((bytes[2] - 128) * 64) + (bytes[3] - 128)
    ELSE ((bytes[1] - 240) * 262144) + ((bytes[2] - 128) * 4096)
         + ((bytes[3] - 128) * 64) + (bytes[4] - 128)

RECURSIVE Utf8Decode(_)
\* String::from_utf8: Some(code points) as <<cps>>, or <<>> when bytes is not
\* well-formed UTF-8.
Utf8Decode(bytes) ==
    IF bytes = <<>> THEN << <<>> >>
    ELSE LET k == Utf8SeqLen(bytes) IN
         IF k = 0 THEN <<>>
         ELSE LET rest == Utf8Decode(SubSeq(bytes, k + 1, Len(bytes))) IN
              IF rest = <<>> THEN <<>>
              ELSE << <<Utf8CodePoint(bytes, k)>> \o rest[1] >>

\* ------------------------------------------------------------------ values

\* Option<ValueSetting>: None, or Some(ValueSetting { index }).
None == <<>>
Some(x) == <<x>>
ValueSetting(index) == [index |-> index]

\* enum Value, one constructor per case.
ValueNull == [case |-> "Null"]
ValueBoolean(b, a) == [case |-> "Boolean", b |-> b, ann |-> a]
ValueInt(n, a) == [case |-> "Int", n |-> n, ann |-> a]
ValueLong(l, a) == [case |-> "Long", l |-> l, ann |-> a]
ValueFloat(f, a) == [case |-> "Float", f |-> f, ann |-> a]
ValueDouble(d, a) == [case |-> "Double", d |-> d, ann |-> a]
ValueBytes(bytes, a) == [case |-> "Bytes", bytes |-> bytes, ann |-> a]
ValueString(s, a) == [case |-> "String", s |-> s, ann |-> a]
ValueFixed(size, bytes, a) == [case |-> "Fixed", size |-> size, bytes |-> bytes, ann |-> a]
ValueEnum(i, s, a) == [case |-> "Enum", i |-> i, s |-> s, ann |-> a]
ValueUnion(v, a) == [case |-> "Union", inner |-> v, ann |-> a]
ValueArray(items, a) == [case |-> "Array", items |-> items, ann |-> a]
ValueMap(m, a) == [case |-> "Map", m |-> m, ann |-> a]
ValueRecord(entries, a) == [case |-> "Record", entries |-> entries, ann |-> a]
ValueDate(t, a) == [case |-> "Date", t |-> t, ann |-> a]
ValueSet(set, a) == [case |-> "Set", set |-> set, ann |-> a]
ValueLruSet(lru, limit, a) == [case |-> "LruSet", lru |-> lru, limit |-> limit, ann |-> a]
ValueOptional(opt, a) == [case |-> "Optional", opt |-> opt, ann |-> a]

\* One (name, value) pair of a Value::Record.
Entry(name, value) == [name |-> name, value |-> value]

LruValue(access_time, count) == [access_time |-> access_time, count |-> count]

\* Result<T, Error>
Ok(v) == [ok |-> TRUE, val |-> v]
Err(kind, msg) == [ok |-> FALSE, errs |-> {[kind |-> kind, msg |-> msg]}]

\* SchemaResolutionError::new(msg).into()
SchemaResolutionError(msg) == Err("SchemaResolutionError", msg)

\* Value::get_value_setting
get_value_setting(index) == IF ~index THEN None ELSE Some(ValueSetting(index))

\* ------------------------------------------------------------------ schemas

\* enum Schema of crate::schema, as types.rs takes it apart.  A Record schema
\* carries name.index and its fields; a field carries name, schema, default
\* (an Option of a JSON document) and index.
SchemaNull == [kind |-> "Null"]
SchemaBoolean == [kind |-> "Boolean"]
SchemaInt == [kind |-> "Int"]
SchemaLong == [kind |-> "Long"]
SchemaFloat == [kind |-> "Float"]
SchemaDouble == [kind |-> "Double"]
SchemaBytes == [kind |-> "Bytes"]
SchemaString == [kind |-> "String"]
SchemaDate == [kind |-> "Date"]
SchemaSet == [kind |-> "Set"]
SchemaFixed(size) == [kind |-> "Fixed", size |-> size]
SchemaEnum(symbols) == [kind |-> "Enum", symbols |-> symbols]
SchemaUnion(schemas) == [kind |-> "Union", schemas |-> schemas]
SchemaArray(inner) == [kind |-> "Array", inner |-> inner]
SchemaMap(inner) == [kind |-> "Map", inner |-> inner]
SchemaRecord(name_index, fields) == [kind |-> "Record", name_index |-> name_index, fields |-> fields]
SchemaLruSet(lru_limit) == [kind |-> "LruSet", lru_limit |-> lru_limit]
SchemaOptional(inner) == [kind |-> "Optional", inner |-> inner]

RecordField(name, schema, default, index) ==
    [name |-> name, schema |-> schema, default |-> default, index |-> index]

\* SchemaKind::from(&Value) and SchemaKind::from(&Schema): the case of a value,
\* the kind of a schema.
SchemaKindOfValue(v) == v.case
SchemaKindOfSchema(s) == s.kind

\* UnionSchema::find_schema: the first branch, in declaration order, whose kind
\* is the value's; Some((position, branch)) or None.
find_schema(union, v) ==
    LET hits == {i \in 1..Len(union.schemas) :
                    SchemaKindOfSchema(union.schemas[i]) = SchemaKindOfValue(v)}
    IN  IF hits = {} THEN None
        ELSE LET i == CHOOSE j \in hits : \A k \in hits : j <= k
             IN  Some(<<i, union.schemas[i]>>)

\* ------------------------------------------------------------------ strings

\* Code points of the text the model uses.
ACCESS_TIME == <<97, 99, 99, 101, 115, 115, 95, 116, 105, 109, 101>>
COUNT == <<99, 111, 117, 110, 116>>

\* ------------------------------------------------------------------ JSON

\* serde_json::Value, the cases a field default takes.
JsonNull == [j |-> "Null"]
JsonBool(b) == [j |-> "Bool", b |-> b]
JsonI64(n) == [j |-> "I64", l |-> n]
JsonString(s) == [j |-> "String", s |-> s]
JsonArray(items) == [j |-> "Array", items |-> items]

RECURSIVE JsonAvro(_)
\* impl ToAvro for JsonValue
JsonAvro(json) ==
    CASE json.j = "Null" -> ValueNull
      [] json.j = "Bool" -> ValueBoolean(json.b, None)
      [] json.j = "I64" -> ValueLong(json.l, None)
      [] json.j = "String" -> ValueString(json.s, None)
      [] json.j = "Array" ->
            ValueArray([i \in 1..Len(json.items) |-> JsonAvro(json.items[i])], None)

\* LRU_VALUE_SCHEMA: the record {access_time: long default 0, count: long default 0}.
LRU_VALUE_SCHEMA ==
    SchemaRecord(FALSE, <<RecordField(ACCESS_TIME, SchemaLong, Some(JsonI64(I64(0, 0))), FALSE),
                          RecordField(COUNT, SchemaLong, Some(JsonI64(I64(0, 0))), FALSE)>>)

\* ------------------------------------------------------------------ Record

\* The lookup of a Schema::Record: the position (from 0) of each field name.
schema_lookup(schema_fields) ==
    [name \in {schema_fields[i].name : i \in 1..Len(schema_fields)} |->
        (CHOOSE i \in 1..Len(schema_fields) : schema_fields[i].name = name) - 1]

\* Record<'a>
Record(fields, lookup) == [fields |-> fields, schema_lookup |-> lookup]

\* Record::new
new(schema) ==
    IF schema.kind = "Record"
    THEN Some(Record([i \in 1..Len(schema.fields) |-> Entry(schema.fields[i].name, ValueNull)],
                     schema_lookup(schema.fields)))
    ELSE None

\* What is put: a Value (impl ToAvro for Value) or a JSON document (impl ToAvro
\* for JsonValue).
PutValue(v) == [to_avro |-> "Value", v |-> v]
PutJson(json) == [to_avro |-> "JsonValue", json |-> json]

\* value.avro()
avro(value) == IF value.to_avro = "Value" THEN value.v ELSE JsonAvro(value.json)

\* Record::put adding an entry for a name the schema does not know.
put_any_name(self, field, value) ==
    IF field \in DOMAIN self.schema_lookup
    THEN [self EXCEPT !.fields[self.schema_lookup[field] + 1].value = avro(value)]
    ELSE [self EXCEPT !.fields = Append(self.fields, Entry(field, avro(value)))]

\* Record::put
put(self, field, value) ==
    IF field \in DOMAIN self.schema_lookup
    THEN [self EXCEPT !.fields[self.schema_lookup[field] + 1].value = avro(value)]
    ELSE self

\* ------------------------------------------------------------------ validate

RECURSIVE validate(_, _), validate_record(_, _)

\* The Enum arm of Value::validate, looking the symbol up by name.
validate_enum_by_name(v, symbols) ==
    /\ v.i >= 0 /\ v.i < Len(symbols)
    /\ \E i \in 1..Len(symbols) : symbols[i] = v.s

\* The Enum arm of Value::validate: symbols.get(i as usize), where a negative i
\* wraps to a huge index.
validate_enum(v, symbols) ==
    IF v.i >= 0 /\ v.i < Len(symbols) THEN symbols[v.i + 1] = v.s ELSE FALSE

\* The Record arm of Value::validate, with zip ending at the shorter list.
validate_record_no_len(v, schema) ==
    \A i \in 1..Len(schema.fields) :
        i <= Len(v.entries) =>
            /\ schema.fields[i].name = v.entries[i].name
            /\ validate(v.entries[i].value, schema.fields[i].schema)

\* The Record arm of Value::validate.
validate_record(v, schema) ==
    /\ Len(schema.fields) = Len(v.entries)
    /\ \A i \in 1..Len(schema.fields) :
          /\ schema.fields[i].name = v.entries[i].name
          /\ validate(v.entries[i].value, schema.fields[i].schema)

\* Value::validate
validate(v, schema) ==
    LET c == v.case
        k == schema.kind
    IN  CASE c = "Null" /\ k = "Null" -> TRUE
          [] c = "Boolean" /\ k = "Boolean" -> TRUE
          [] c = "Int" /\ k = "Int" -> TRUE
          [] c = "Long" /\ k = "Long" -> TRUE
          [] c = "Float" /\ k = "Float" -> TRUE
          [] c = "Double" /\ k = "Double" -> TRUE
          [] c = "Bytes" /\ k = "Bytes" -> TRUE
          [] c = "String" /\ k = "String" -> TRUE
          [] c = "Fixed" /\ k = "Fixed" -> v.size = schema.size
          [] c = "String" /\ k = "Enum" ->
                \E i \in 1..Len(schema.symbols) : schema.symbols[i] = v.s
          [] c = "Enum" /\ k = "Enum" -> validate_enum(v, schema.symbols)
          [] c = "Union" /\ k = "Union" -> find_schema(schema, v.inner) # None
          [] c = "Array" /\ k = "Array" ->
                \A i \in 1..Len(v.items) : validate(v.items[i], schema.inner)
          [] c = "Map" /\ k = "Map" ->
                \A key \in DOMAIN v.m : validate(v.m[key], schema.inner)
          [] c = "Record" /\ k = "Record" -> validate_record(v, schema)
          [] c = "Date" /\ k = "Date" -> TRUE
          [] c = "Set" /\ k = "Set" -> TRUE
          [] c = "LruSet" /\ k = "LruSet" -> TRUE
          [] c = "Optional" /\ k = "Optional" ->
                IF v.opt # None THEN validate(v.opt[1], schema.inner) ELSE TRUE
          [] OTHER -> FALSE

\* ------------------------------------------------------------------ dates

\* "1970-01-01T00:00:01Z"
TextRfc3339 == <<49, 57, 55, 48, 45, 48, 49, 45, 48, 49, 84, 48, 48, 58, 48, 48, 58, 48, 49, 90>>
\* "Thu, 01 Jan 1970 00:00:02 +0000"
TextRfc2822 == <<84, 104, 117, 44, 32, 48, 49, 32, 74, 97, 110, 32, 49, 57, 55, 48, 32,
                 48, 48, 58, 48, 48, 58, 48, 50, 32, 43, 48, 48, 48, 48>>

\* chrono::DateTime::parse_from_rfc3339(s) followed by timestamp_millis(), on
\* the texts of the model: Some(milliseconds) or None.
parse_from_rfc3339(s) == IF s = TextRfc3339 THEN Some(I64(0, 1000)) ELSE None

\* chrono::DateTime::parse_from_rfc2822(s) followed by timestamp_millis().
parse_from_rfc2822(s) == IF s = TextRfc2822 THEN Some(I64(0, 2000)) ELSE None

\* ------------------------------------------------------------------ resolve

\* Vec<Result<T, E>> collected into Result<Vec<T>, E>: the first error in
\* order, or all the values.
CollectSeq(rs) ==
    LET bad == {i \in DOMAIN rs : ~rs[i].ok} IN
    IF bad = {} THEN Ok([i \in DOMAIN rs |-> rs[i].val])
    ELSE rs[CHOOSE i \in bad : \A j \in bad : i <= j]

\* The results of a HashMap's entries collected into Result<HashMap<_, _>, E>:
\* the error of whichever failing entry the iteration meets first.
CollectMap(rs) ==
    LET bad == {key \in DOMAIN rs : ~rs[key].ok} IN
    IF bad = {} THEN Ok([key \in DOMAIN rs |-> rs[key].val])
    ELSE [ok |-> FALSE, errs |-> UNION {rs[key].errs : key \in bad}]

RECURSIVE resolve_internal(_, _, _), try_u8(_), resolve_bytes(_, _),
          resolve_union(_, _, _), resolve_array(_, _, _), resolve_map(_, _, _),
          resolve_record(_, _, _), resolve_lru_value(_), resolve_lru_set(_, _, _),
          resolve_optional(_, _, _)

\* Value::resolve.  Its body is that of resolve_internal with false in place
\* of index: the same unwrapping of a Union value, then arm by arm the call
\* resolve_internal makes with index = false (Boolean, String, Enum, Array, Map,
\* Date, Set, LruSet and Optional pass false where resolve_internal passes
\* index; Null, Int, Long, Float, Double, Bytes, Fixed, Union and Record are
\* the same text in both).  It is written as that call, so that the recursion
\* of the resolver runs through resolve_internal alone.
resolve(value, schema) == resolve_internal(value, schema, FALSE)

\* Value::resolve_null
resolve_null(self) ==
    IF self.case = "Null" THEN Ok(ValueNull) ELSE SchemaResolutionError("Null expected")

\* Value::resolve_boolean
resolve_boolean(self, index) ==
    IF self.case = "Boolean" THEN Ok(ValueBoolean(self.b, get_value_setting(index)))
    ELSE SchemaResolutionError("Boolean expected")

\* resolve_int refusing a Long that does not fit an i32.
resolve_int_checked(self, index) ==
    CASE self.case = "Int" -> Ok(ValueInt(self.n, get_value_setting(index)))
      [] self.case = "Long" ->
            IF self.l.q \in {0, -1}
            THEN Ok(ValueInt(I64AsI32(self.l), get_value_setting(index)))
            ELSE SchemaResolutionError("Int expected")
      [] OTHER -> SchemaResolutionError("Int expected")

\* Value::resolve_int
resolve_int(self, index) ==
    CASE self.case = "Int" -> Ok(ValueInt(self.n, get_value_setting(index)))
      [] self.case = "Long" -> Ok(ValueInt(I64AsI32(self.l), get_value_setting(index)))
      [] OTHER -> SchemaResolutionError("Int expected")

\* Value::resolve_long
resolve_long(self, index) ==
    CASE self.case = "Int" -> Ok(ValueLong(I64FromI32(self.n), get_value_setting(index)))
      [] self.case = "Long" -> Ok(ValueLong(self.l, get_value_setting(index)))
      [] OTHER -> SchemaResolutionError("Long expected")

\* Value::resolve_float
resolve_float(self, index) ==
    CASE self.case = "Int" -> Ok(ValueFloat(AsF32(I64FromI32(self.n)), get_value_setting(index)))
      [] self.case = "Long" -> Ok(ValueFloat(AsF32(self.l), get_value_setting(index)))
      [] self.case = "Float" -> Ok(ValueFloat(self.f, get_value_setting(index)))
      [] self.case = "Double" -> Ok(ValueFloat(AsF32(self.d), get_value_setting(index)))
      [] OTHER -> SchemaResolutionError("Float expected")

\* Value::resolve_double
resolve_double(self, index) ==
    CASE self.case = "Int" -> Ok(ValueDouble(AsF64(I64FromI32(self.n)), get_value_setting(index)))
      [] self.case = "Long" -> Ok(ValueDouble(AsF64(self.l), get_value_setting(index)))
      [] self.case = "Float" -> Ok(ValueDouble(AsF64(self.f), get_value_setting(index)))
      [] self.case = "Double" -> Ok(ValueDouble(self.d, get_value_setting(index)))
      [] OTHER -> SchemaResolutionError("Double expected")

\* Value::try_u8
try_u8(self) ==
    LET int == resolve(self, SchemaInt) IN
    IF ~int.ok THEN int
    ELSE IF int.val.case = "Int" /\ int.val.ann = None
            /\ int.val.n >= 0 /\ int.val.n <= U8Max
    THEN Ok(int.val.n)
    ELSE SchemaResolutionError("Unable to convert to u8")

\* Value::resolve_bytes
resolve_bytes(self, index) ==
    CASE self.case = "Bytes" -> Ok(ValueBytes(self.bytes, get_value_setting(index)))
      [] self.case = "String" -> Ok(ValueBytes(Utf8Encode(self.s), get_value_setting(index)))
      [] self.case = "Array" ->
            LET bytes == CollectSeq([i \in 1..Len(self.items) |-> try_u8(self.items[i])]) IN
            IF ~bytes.ok THEN bytes ELSE Ok(ValueBytes(bytes.val, get_value_setting(index)))
      [] OTHER -> SchemaResolutionError("Bytes expected")

\* resolve_string leaving a String source its own annotation.
resolve_string_verbatim(self, index) ==
    CASE self.case = "String" -> Ok(self)
      [] self.case = "Bytes" ->
            LET s == Utf8Decode(self.bytes) IN
            IF s = None THEN Err("FromUtf8Error", "invalid utf-8 sequence")
            ELSE Ok(ValueString(s[1], get_value_setting(index)))
      [] OTHER -> SchemaResolutionError("String expected")

\* Value::resolve_string
resolve_string(self, index) ==
    CASE self.case = "String" -> Ok(ValueString(self.s, get_value_setting(index)))
      [] self.case = "Bytes" ->
            LET s == Utf8Decode(self.bytes) IN
            IF s = None THEN Err("FromUtf8Error", "invalid utf-8 sequence")
            ELSE Ok(ValueString(s[1], get_value_setting(index)))
      [] OTHER -> SchemaResolutionError("String expected")

\* Value::resolve_fixed
resolve_fixed(self, size, index) ==
    IF self.case = "Fixed"
    THEN IF self.size = size
         THEN Ok(ValueFixed(self.size, self.bytes, get_value_setting(index)))
         ELSE SchemaResolutionError("Fixed size mismatch")
    ELSE SchemaResolutionError("String expected")

\* The closure validate_symbol of Value::resolve_enum.
validate_symbol(symbol, symbols, index) ==
    LET at == {i \in 1..Len(symbols) : symbols[i] = symbol} IN
    IF at # {}
    THEN Ok(ValueEnum((CHOOSE i \in at : \A j \in at : i <= j) - 1, symbol,
                      get_value_setting(index)))
    ELSE SchemaResolutionError("Enum default is not among allowed symbols")

\* resolve_enum trusting the index an Enum value arrives with.
resolve_enum_old_index(self, symbols, index) ==
    CASE self.case = "Enum" ->
            IF self.i >= 0 /\ self.i < Len(symbols) /\ (\E i \in 1..Len(symbols) : symbols[i] = self.s)
            THEN Ok(ValueEnum(self.i, self.s, get_value_setting(index)))
            ELSE SchemaResolutionError("Enum value is out of bound")
      [] self.case = "String" -> validate_symbol(self.s, symbols, index)
      [] OTHER -> SchemaResolutionError("Enum expected")

\* Value::resolve_enum
resolve_enum(self, symbols, index) ==
    CASE self.case = "Enum" ->
            IF self.i >= 0 /\ self.i < Len(symbols)
            THEN validate_symbol(self.s, symbols, index)
            ELSE SchemaResolutionError("Enum value is out of bound")
      [] self.case = "String" -> validate_symbol(self.s, symbols, index)
      [] OTHER -> SchemaResolutionError("Enum expected")

\* resolve_union matching a Union value as it stands, wrapper included.
resolve_union_wrapped(self, schema, index) ==
    LET found == find_schema(schema, self) IN
    IF found = None
    THEN SchemaResolutionError("Could not find matching type in union")
    ELSE resolve_internal(self, found[1][2], index)

\* Value::resolve_union
resolve_union(self, schema, index) ==
    LET v == IF self.case = "Union" THEN self.inner ELSE self
        found == find_schema(schema, v)
    IN  IF found = None
        THEN SchemaResolutionError("Could not find matching type in union")
        ELSE resolve_internal(v, found[1][2], index)

\* Value::resolve_array
resolve_array(self, schema, index) ==
    IF self.case = "Array"
    THEN LET items == CollectSeq([i \in 1..Len(self.items) |->
                                    resolve_internal(self.items[i], schema, index)])
         IN  IF ~items.ok THEN items
             ELSE Ok(ValueArray(items.val, get_value_setting(index)))
    ELSE SchemaResolutionError("Array expected")

\* Value::resolve_map
resolve_map(self, schema, index) ==
    IF self.case = "Map"
    THEN LET items == CollectMap([key \in DOMAIN self.m |->
                                    resolve_internal(self.m[key], schema, index)])
         IN  IF ~items.ok THEN items
             ELSE Ok(ValueMap(items.val, get_value_setting(index)))
    ELSE SchemaResolutionError("Map expected")

\* Vec<(String, Value)> collected into a HashMap: the last entry of a name wins.
EntriesToMap(entries) ==
    [name \in {entries[i].name : i \in 1..Len(entries)} |->
        entries[CHOOSE i \in 1..Len(entries) :
                    /\ entries[i].name = name
                    /\ \A j \in 1..Len(entries) : entries[j].name = name => j <= i].value]

\* resolve_record giving a field that is absent and has no default the value
\* Null, where the code fails.
resolve_record_partial(self, fields, index) ==
    IF self.case \notin {"Map", "Record"} THEN SchemaResolutionError("Record expected")
    ELSE
    LET items == IF self.case = "Map" THEN self.m ELSE EntriesToMap(self.entries)
        \* items.remove(&field.name): an entry is taken by the first field of its name.
        removed(i) == /\ fields[i].name \in DOMAIN items
                      /\ \A j \in 1..(i - 1) : fields[j].name # fields[i].name
        value(i) ==
            LET field == fields[i] IN
            IF removed(i) THEN Ok(items[field.name])
            ELSE IF field.default # None
            THEN IF field.schema.kind = "Enum"
                 THEN resolve_enum(JsonAvro(field.default[1]), field.schema.symbols, field.index)
                 ELSE Ok(JsonAvro(field.default[1]))
            ELSE Ok(ValueNull)
        new_field(i) ==
            LET v == value(i) IN
            IF ~v.ok THEN v
            ELSE LET r == resolve_internal(v.val, fields[i].schema, fields[i].index) IN
                 IF ~r.ok THEN r ELSE Ok(Entry(fields[i].name, r.val))
        new_fields == CollectSeq([i \in 1..Len(fields) |-> new_field(i)])
    IN  IF ~new_fields.ok THEN new_fields
        ELSE Ok(ValueRecord(new_fields.val, get_value_setting(index)))

\* Value::resolve_record
resolve_record(self, fields, index) ==
    IF self.case \notin {"Map", "Record"} THEN SchemaResolutionError("Record expected")
    ELSE
    LET items == IF self.case = "Map" THEN self.m ELSE EntriesToMap(self.entries)
        \* items.remove(&field.name): an entry is taken by the first field of its name.
        removed(i) == /\ fields[i].name \in DOMAIN items
                      /\ \A j \in 1..(i - 1) : fields[j].name # fields[i].name
        value(i) ==
            LET field == fields[i] IN
            IF removed(i) THEN Ok(items[field.name])
            ELSE IF field.default # None
            THEN IF field.schema.kind = "Enum"
                 THEN resolve_enum(JsonAvro(field.default[1]), field.schema.symbols, field.index)
                 ELSE Ok(JsonAvro(field.default[1]))
            ELSE SchemaResolutionError("missing field in record")
        new_field(i) ==
            LET v == value(i) IN
            IF ~v.ok THEN v
            ELSE LET r == resolve_internal(v.val, fields[i].schema, fields[i].index) IN
                 IF ~r.ok THEN r ELSE Ok(Entry(fields[i].name, r.val))
        new_fields == CollectSeq([i \in 1..Len(fields) |-> new_field(i)])
    IN  IF ~new_fields.ok THEN new_fields
        ELSE Ok(ValueRecord(new_fields.val, get_value_setting(index)))

\* Value::resolve_datetime
resolve_datetime(self, index) ==
    CASE self.case = "Long" -> Ok(ValueDate(self.l, get_value_setting(index)))
      [] self.case = "Date" -> Ok(ValueDate(self.t, get_value_setting(index)))
      [] self.case = "String" ->
            IF parse_from_rfc3339(self.s) # None
            THEN Ok(ValueDate(parse_from_rfc3339(self.s)[1], get_value_setting(index)))
            ELSE IF parse_from_rfc2822(self.s) # None
            THEN Ok(ValueDate(parse_from_rfc2822(self.s)[1], get_value_setting(index)))
            ELSE Err("ErrorMessage", "Couldn't resolve string value to date")
      [] OTHER -> SchemaResolutionError("Date expected")

\* resolve_set passing over the elements that are no String.
resolve_set_lenient(self, index) ==
    CASE self.case = "Array" ->
            Ok(ValueSet({self.items[i].s : i \in {j \in 1..Len(self.items) :
                                                    self.items[j].case = "String"}},
                        get_value_setting(index)))
      [] self.case = "Set" -> Ok(ValueSet(self.set, get_value_setting(index)))
      [] OTHER -> SchemaResolutionError("Set expected")

\* Value::resolve_set
resolve_set(self, index) ==
    CASE self.case = "Array" ->
            LET strings == CollectSeq([i \in 1..Len(self.items) |->
                              IF self.items[i].case = "String" THEN Ok(self.items[i].s)
                              ELSE SchemaResolutionError("String expected")])
            IN  IF ~strings.ok THEN strings
                ELSE Ok(ValueSet({strings.val[i] : i \in 1..Len(strings.val)},
                                 get_value_setting(index)))
      [] self.case = "Set" -> Ok(ValueSet(self.set, get_value_setting(index)))
      [] OTHER -> SchemaResolutionError("Set expected")

\* The last Long entry named name among fields, 0 when there is none: the loop
\* of Value::resolve_lru_value.
LastLong(fields, name) ==
    LET at == {i \in 1..Len(fields) : fields[i].name = name /\ fields[i].value.case = "Long"} IN
    IF at = {} THEN I64(0, 0)
    ELSE fields[CHOOSE i \in at : \A j \in at : j <= i].value.l

\* Value::resolve_lru_value
resolve_lru_value(self) ==
    LET resolved == resolve_internal(self, LRU_VALUE_SCHEMA, FALSE) IN
    IF ~resolved.ok THEN resolved
    ELSE IF resolved.val.case = "Record"
    THEN Ok(LruValue(LastLong(resolved.val.entries, ACCESS_TIME),
                     LastLong(resolved.val.entries, COUNT)))
    ELSE SchemaResolutionError("Expected LruValue record")

\* resolve_lru_set leaving an LruSet source as it came, limit included.
resolve_lru_set_verbatim(self, lru_limit, index) ==
    CASE self.case = "Map" ->
            LET items == CollectMap([key \in DOMAIN self.m |-> resolve_lru_value(self.m[key])]) IN
            IF ~items.ok THEN items
            ELSE Ok(ValueLruSet(items.val, lru_limit, get_value_setting(index)))
      [] self.case = "LruSet" -> Ok(ValueLruSet(self.lru, self.limit, get_value_setting(index)))
      [] OTHER -> SchemaResolutionError("LruSet expected")

\* Value::resolve_lru_set
resolve_lru_set(self, lru_limit, index) ==
    CASE self.case = "Map" ->
            LET items == CollectMap([key \in DOMAIN self.m |-> resolve_lru_value(self.m[key])]) IN
            IF ~items.ok THEN items
            ELSE Ok(ValueLruSet(items.val, lru_limit, get_value_setting(index)))
      [] self.case = "LruSet" -> Ok(ValueLruSet(self.lru, lru_limit, get_value_setting(index)))
      [] OTHER -> SchemaResolutionError("LruSet expected")

\* Value::resolve_optional
resolve_optional(self, schema, index) ==
    LET v == IF self.case = "Optional" THEN self.opt ELSE Some(self) IN
    IF v # None
    THEN LET value == resolve(v[1], schema) IN
         IF ~value.ok THEN value
         ELSE Ok(ValueOptional(Some(value.val), get_value_setting(index)))
    ELSE Ok(ValueOptional(None, get_value_setting(index)))

\* No unwrapping at all.
PullOutUnionNever(self, schema) == self

\* The first step of resolve_internal (and of resolve): a Union value is unwrapped
\* when the reader schema is not a union.
PullOutUnion(self, schema) ==
    IF SchemaKindOfValue(self) = "Union" /\ SchemaKindOfSchema(schema) # "Union"
    THEN self.inner ELSE self

\* resolve_internal handing index to every arm.
resolve_internal_index_everywhere(value, schema, index) ==
    LET self == PullOutUnion(value, schema)
        k == schema.kind
    IN  CASE k = "Null" -> resolve_null(self)
          [] k = "Boolean" -> resolve_boolean(self, index)
          [] k = "Int" -> resolve_int(self, index)
          [] k = "Long" -> resolve_long(self, index)
          [] k = "Float" -> resolve_float(self, index)
          [] k = "Double" -> resolve_double(self, index)
          [] k = "Bytes" -> resolve_bytes(self, index)
          [] k = "String" -> resolve_string(self, index)
          [] k = "Fixed" -> resolve_fixed(self, schema.size, index)
          [] k = "Union" -> resolve_union(self, schema, index)
          [] k = "Enum" -> resolve_enum(self, schema.symbols, index)
          [] k = "Array" -> resolve_array(self, schema.inner, index)
          [] k = "Map" -> resolve_map(self, schema.inner, index)
          [] k = "Record" -> resolve_record(self, schema.fields, schema.name_index)
          [] k = "Date" -> resolve_datetime(self, index)
          [] k = "Set" -> resolve_set(self, index)
          [] k = "LruSet" -> resolve_lru_set(self, schema.lru_limit, index)
          [] k = "Optional" -> resolve_optional(self, schema.inner, index)

\* Value::resolve_internal
resolve_internal(value, schema, index) ==
    LET self == PullOutUnion(value, schema)
        k == schema.kind
    IN  CASE k = "Null" -> resolve_null(self)
          [] k = "Boolean" -> resolve_boolean(self, index)
          [] k = "Int" -> resolve_int(self, FALSE)
          [] k = "Long" -> resolve_long(self, FALSE)
          [] k = "Float" -> resolve_float(self, FALSE)
          [] k = "Double" -> resolve_double(self, FALSE)
          [] k = "Bytes" -> resolve_bytes(self, FALSE)
          [] k = "String" -> resolve_string(self, index)
          [] k = "Fixed" -> resolve_fixed(self, schema.size, FALSE)
          [] k = "Union" -> resolve_union(self, schema, FALSE)
          [] k = "Enum" -> resolve_enum(self, schema.symbols, index)
          [] k = "Array" -> resolve_array(self, schema.inner, index)
          [] k = "Map" -> resolve_map(self, schema.inner, index)
          [] k = "Record" -> resolve_record(self, schema.fields, schema.name_index)
          [] k = "Date" -> resolve_datetime(self, index)
          [] k = "Set" -> resolve_set(self, index)
          [] k = "LruSet" -> resolve_lru_set(self, schema.lru_limit, index)
          [] k = "Optional" -> resolve_optional(self, schema.inner, index)

\* ------------------------------------------------------------------ inputs

\* Longest array, byte sequence and list of record entries of the inputs.
MaxLen == 2
MaxEntries == 2
\* Most branches of a union schema of the inputs.
MaxBranches == 2
\* Enum values of the inputs carry an index in -1..MaxIndex.
MaxIndex == 3

SeqsUpTo(S, n) == UNION {[1..k -> S] : k \in 0..n}

\* Text: "a", "b", "c" name fields and keys; "x", "y", "z" are symbols and text.
StrA == <<97>>
StrB == <<98>>
StrC == <<99>>
StrX == <<120>>
StrY == <<121>>
StrZ == <<122>>
\* U+00E9, two bytes in UTF-8.
StrEAcute == <<233>>

Indexed == Some(ValueSetting(TRUE))

\* 2^32 + 5, 2^31, -1 and 2^24 + 1 as i64.
Long2p32plus5 == I64(2, 5)
Long2p31 == I64(1, 0)
LongMinus1 == I64(-1, MaxI32)
Long2p24plus1 == I64(0, 2^24 + 1)

\* LruLimit is opaque to types.rs: two limits told apart by name.
LruLimits == {"L1", "L2"}

\* Values without children, every case of Value among them.
Atoms ==
    {ValueNull, ValueBoolean(TRUE, None), ValueBoolean(FALSE, Indexed),
     ValueInt(42, None), ValueInt(300, None), ValueInt(-1, Indexed),
     ValueLong(I64(0, 5), None), ValueLong(Long2p32plus5, None), ValueLong(Long2p31, Indexed),
     ValueLong(Long2p24plus1, None),
     ValueFloat(I64(0, 1), None), ValueDouble(Long2p24plus1, Indexed),
     ValueBytes(<<120>>, None), ValueBytes(<<255>>, Indexed), ValueBytes(<<195, 169>>, None),
     ValueString(StrX, None), ValueString(StrZ, Indexed), ValueString(StrEAcute, None),
     ValueString(TextRfc3339, None), ValueString(TextRfc2822, None),
     ValueFixed(1, <<7>>, None), ValueFixed(2, <<7, 7>>, Indexed), ValueFixed(2, <<7>>, None),
     ValueEnum(0, StrX, None), ValueEnum(1, StrX, Indexed), ValueEnum(5, StrY, None),
     ValueDate(I64(0, 1000), None),
     ValueSet({StrX}, None), ValueSet({}, Indexed),
     ValueLruSet([key \in {StrA} |-> LruValue(I64(0, 1), I64(0, 2))], "L2", None)}

\* Elements of the arrays and maps of the general inputs.
Elems ==
    {ValueNull, ValueInt(42, None), ValueInt(300, Indexed), ValueLong(Long2p32plus5, None),
     ValueString(StrX, None), ValueBytes(<<255>>, None)}

MapsOver(keys, vals) == UNION {[ks -> vals] : ks \in SUBSET keys}

\* A map whose values resolve to LruValue, and nested containers.
Nested ==
    {ValueMap([key \in {StrA} |-> ValueMap([k2 \in {COUNT} |-> ValueInt(7, None)], None)], None),
     ValueMap([key \in {StrA, StrB} |->
                 IF key = StrA THEN ValueRecord(<<Entry(ACCESS_TIME, ValueLong(I64(0, 9), None))>>, None)
                 ELSE ValueInt(1, None)], None),
     ValueArray(<<ValueArray(<<ValueInt(1, None)>>, None)>>, None),
     ValueArray(<<ValueUnion(ValueInt(7, None), None), ValueString(StrX, None)>>, None),
     ValueUnion(ValueUnion(ValueInt(42, None), None), None),
     ValueOptional(Some(ValueOptional(None, None)), None),
     ValueOptional(Some(ValueUnion(ValueInt(42, None), None)), None)}

GeneralValues ==
    Atoms \cup {ValueUnion(a, None) : a \in Atoms}
          \cup {ValueOptional(None, Indexed)} \cup {ValueOptional(Some(e), None) : e \in Elems}
          \cup {ValueArray(items, None) : items \in SeqsUpTo(Elems, MaxLen)}
          \cup {ValueMap(m, None) : m \in MapsOver({StrA, StrB}, Elems)}
          \cup Nested

LeafSchemas ==
    {SchemaNull, SchemaBoolean, SchemaInt, SchemaLong, SchemaFloat, SchemaDouble, SchemaBytes,
     SchemaString, SchemaDate, SchemaSet, SchemaFixed(1), SchemaFixed(2),
     SchemaEnum(<<StrX, StrY>>), SchemaLruSet("L1")}

InnerSchemas == {SchemaInt, SchemaLong, SchemaString, SchemaBytes, SchemaNull}

\* Union schemas hold no union; the general ones hold one branch per kind.
GeneralUnions ==
    {SchemaUnion(<<SchemaNull, SchemaInt>>), SchemaUnion(<<SchemaInt, SchemaNull>>),
     SchemaUnion(<<SchemaLong, SchemaString>>), SchemaUnion(<<SchemaBytes, SchemaString, SchemaDouble>>),
     SchemaUnion(<<SchemaNull, SchemaArray(SchemaInt)>>),
     SchemaUnion(<<SchemaNull, SchemaOptional(SchemaInt), SchemaMap(SchemaLong)>>)}

GeneralSchemas ==
    LeafSchemas \cup GeneralUnions
        \cup {SchemaArray(s) : s \in InnerSchemas} \cup {SchemaMap(s) : s \in InnerSchemas}
        \cup {SchemaOptional(s) : s \in InnerSchemas}
        \cup {SchemaOptional(SchemaOptional(SchemaInt)), SchemaOptional(SchemaUnion(<<SchemaNull, SchemaInt>>)),
              SchemaArray(SchemaUnion(<<SchemaNull, SchemaInt>>)), SchemaArray(SchemaArray(SchemaInt)),
              SchemaMap(SchemaUnion(<<SchemaString, SchemaInt>>))}

\* Elements of the arrays resolved against Bytes.
ByteElems ==
    {ValueInt(0, None), ValueInt(42, None), ValueInt(255, None), ValueInt(256, None),
     ValueInt(300, None), ValueInt(-42, None), ValueInt(2000, None), ValueInt(7, Indexed),
     ValueLong(I64(0, 5), None), ValueLong(I64(0, 300), None), ValueLong(Long2p32plus5, None),
     ValueLong(Long2p31, None), ValueLong(LongMinus1, None),
     ValueUnion(ValueInt(9, None), None), ValueString(StrX, None), ValueNull}

ByteArrays == {ValueArray(items, None) : items \in SeqsUpTo(ByteElems, MaxLen)}

Symbols == {StrX, StrY, StrZ}

\* Symbol lists without repetition, and one with.
SymbolLists ==
    {symbols \in SeqsUpTo({StrX, StrY}, 2) \cup {<<StrY, StrZ, StrX>>, <<StrZ>>} :
        symbols # <<>>}

EnumSources ==
    {ValueString(s, a) : s \in Symbols, a \in {None, Indexed}}
        \cup {ValueEnum(i, s, None) : i \in -1..MaxIndex, s \in Symbols}
        \cup {ValueUnion(ValueString(StrY, None), None), ValueInt(0, None), ValueNull}

EnumSchemas == {SchemaEnum(symbols) : symbols \in SymbolLists}

\* Branches of the union inputs: kinds may repeat, as in a list of two fixed
\* or two enum types.
Branches ==
    {SchemaNull, SchemaInt, SchemaLong, SchemaString, SchemaFixed(1), SchemaFixed(2),
     SchemaEnum(<<StrX, StrY>>), SchemaEnum(<<StrY>>), SchemaBoolean}

UnionSchemas == {SchemaUnion(schemas) : schemas \in SeqsUpTo(Branches, MaxBranches) \ {<<>>}}

UnionSources == Atoms \cup {ValueUnion(a, Indexed) : a \in Atoms}
                      \cup {ValueUnion(ValueUnion(ValueInt(42, None), None), None)}

\* Record inputs: sources are maps and records over the names a, b, c.
RecordElems == {ValueLong(I64(0, 5), None), ValueString(StrX, Indexed), ValueNull}

RecordSources ==
    {ValueMap(m, None) : m \in MapsOver({StrA, StrB, StrC}, RecordElems)}
        \cup {ValueRecord(entries, None) :
                entries \in SeqsUpTo({Entry(n, v) : n \in {StrA, StrB, StrC}, v \in RecordElems},
                                     MaxEntries)}

\* (schema, default) of the fields of the record inputs.
FieldTypes ==
    {<<SchemaLong, None>>, <<SchemaLong, Some(JsonI64(I64(0, 1)))>>,
     <<SchemaString, None>>, <<SchemaString, Some(JsonString(StrX))>>}

FieldsNamed(name) == {RecordField(name, ft[1], ft[2], FALSE) : ft \in FieldTypes}

\* Field lists with distinct names: none, one or two fields.
FieldLists ==
    {<<>>} \cup {<<f>> : f \in FieldsNamed(StrA) \cup FieldsNamed(StrB)}
           \cup {<<f, g>> : f \in FieldsNamed(StrA), g \in FieldsNamed(StrB)}
           \cup {<<g, f>> : f \in FieldsNamed(StrA), g \in FieldsNamed(StrB)}

RecordSchemas == {SchemaRecord(FALSE, fields) : fields \in FieldLists}

\* Annotation inputs: a record of one field a, of every kind, with the field's
\* index flag and the record's own flag both ways.
InnerRecord(name_index) ==
    SchemaRecord(name_index, <<RecordField(StrC, SchemaInt, Some(JsonI64(I64(0, 1))), TRUE)>>)

AnnotFieldTypes ==
    {<<s, None>> : s \in LeafSchemas}
        \cup {<<SchemaArray(SchemaString), None>>, <<SchemaMap(SchemaString), None>>,
              <<SchemaOptional(SchemaString), None>>, <<InnerRecord(FALSE), None>>,
              <<InnerRecord(TRUE), None>>,
              <<SchemaUnion(<<SchemaNull, SchemaString>>), None>>,
              <<SchemaUnion(<<SchemaString, SchemaInt, InnerRecord(TRUE)>>), None>>,
              <<SchemaUnion(<<SchemaArray(SchemaString), SchemaBoolean>>), None>>,
              <<SchemaEnum(<<StrX, StrY>>), Some(JsonString(StrY))>>,
              <<SchemaEnum(<<StrX, StrY>>), Some(JsonString(StrZ))>>,
              <<SchemaString, Some(JsonString(StrX))>>, <<SchemaBoolean, Some(JsonBool(TRUE))>>,
              <<SchemaInt, Some(JsonI64(I64(0, 1)))>>,
              <<SchemaArray(SchemaString), Some(JsonArray(<<JsonString(StrX)>>))>>,
              <<SchemaUnion(<<SchemaNull, SchemaString>>), Some(JsonNull)>>}

AnnotSchemas ==
    {SchemaRecord(name_index, <<RecordField(StrA, ft[1], ft[2], index)>>) :
        name_index \in BOOLEAN, ft \in AnnotFieldTypes, index \in BOOLEAN}

AnnotValues ==
    Atoms \cup {ValueArray(<<ValueString(StrX, None)>>, None),
                ValueMap([key \in {StrB} |-> ValueString(StrX, None)], None),
                ValueMap(<<>>, None), ValueOptional(None, None),
                ValueUnion(ValueString(StrX, None), None),
                ValueRecord(<<Entry(StrC, ValueInt(3, Indexed))>>, Indexed)}

AnnotSources ==
    {ValueMap(<<>>, None)} \cup {ValueMap([key \in {StrA} |-> v], None) : v \in AnnotValues}

\* Fixed inputs: declared sizes 0..2 against byte sequences of every length up
\* to MaxLen, and sources of other cases.
FixedSources ==
    {ValueFixed(size, bytes, a) :
        size \in 0..2, bytes \in SeqsUpTo({0, 7, U8Max}, MaxLen), a \in {None, Indexed}}
        \cup {ValueBytes(<<7, 7>>, None), ValueString(StrX, None),
              ValueUnion(ValueFixed(2, <<7, 7>>, None), None), ValueNull}

FixedSchemas == {SchemaFixed(size) : size \in 0..2}

\* Set inputs: arrays of strings, with repetition, and of other elements; sets;
\* sources of other cases.
SetElems ==
    {ValueString(StrX, None), ValueString(StrX, Indexed), ValueString(StrY, None),
     ValueInt(42, None), ValueUnion(ValueString(StrX, None), None), ValueNull}

SetSources ==
    {ValueArray(items, a) : items \in SeqsUpTo(SetElems, MaxLen), a \in {None, Indexed}}
        \cup {ValueSet(set, a) : set \in SUBSET {StrX, StrY}, a \in {None, Indexed}}
        \cup {ValueString(StrX, None), ValueNull, ValueMap(<<>>, None),
              ValueUnion(ValueSet({StrX}, None), None)}

\* LruSet inputs: maps over the keys a, b whose values give both fields, one,
\* none, an Int to widen, a field of the wrong case, or are no record at all;
\* LruSet sources under either limit.
LruElems ==
    {ValueMap([k \in {ACCESS_TIME, COUNT} |->
                 IF k = ACCESS_TIME THEN ValueLong(I64(0, 5), None) ELSE ValueLong(I64(0, 3), Indexed)],
              None),
     ValueMap([k \in {COUNT} |-> ValueInt(7, None)], None),
     ValueRecord(<<Entry(ACCESS_TIME, ValueLong(Long2p32plus5, None))>>, Indexed),
     ValueRecord(<<Entry(COUNT, ValueLong(I64(0, 1), None)), Entry(COUNT, ValueLong(I64(0, 2), None))>>,
                 None),
     ValueMap(<<>>, None),
     ValueMap([k \in {StrX} |-> ValueString(StrX, None)], None),
     ValueUnion(ValueMap([k \in {COUNT} |-> ValueLong(I64(0, 4), None)], None), None),
     ValueMap([k \in {ACCESS_TIME} |-> ValueString(StrX, None)], None),
     ValueLong(I64(0, 5), None), ValueNull}

LruSources ==
    {ValueMap(m, a) : m \in MapsOver({StrA, StrB}, LruElems), a \in {None, Indexed}}
        \cup {ValueLruSet(lru, limit, a) :
                lru \in MapsOver({StrA}, {LruValue(I64(0, 1), I64(0, 2))}),
                limit \in LruLimits, a \in {None, Indexed}}
        \cup {ValueArray(<<>>, None), ValueNull}

LruSchemas == {SchemaLruSet(limit) : limit \in LruLimits}

\* Int inputs: Longs on both sides of every multiple of 2^31 from -3 * 2^31
\* to 4 * 2^31, Ints, and sources of other cases.
IntSources ==
    {ValueLong(I64(q, r), a) :
        q \in -3..3, r \in {0, 1, 5, 2^30, MaxI32 - 1, MaxI32}, a \in {None, Indexed}}
        \cup {ValueInt(n, a) : n \in {0, 42, -1, MaxI32, (0 - MaxI32) - 1}, a \in {None, Indexed}}
        \cup {ValueUnion(ValueLong(Long2p32plus5, None), None), ValueString(StrX, None),
              ValueDouble(I64(0, 1), None), ValueNull}

\* Builder inputs: the record schemas and some schemas of other kinds; puts
\* under the names a, b, c of values and of JSON documents.
MaxPuts == 2

BuilderSchemas == RecordSchemas \cup {SchemaNull, SchemaString, SchemaMap(SchemaLong)}

PutNames == {StrA, StrB, StrC}

PutArgs ==
    {PutValue(ValueLong(I64(0, 5), None)), PutValue(ValueString(StrX, Indexed)),
     PutValue(ValueNull), PutJson(JsonI64(I64(0, 1))), PutJson(JsonString(StrY))}

\* Optional inputs: absent and present Optionals, present ones holding a value
\* of another case, an Optional or a Union, and bare values.
OptionalElems ==
    {ValueInt(42, Indexed), ValueLong(Long2p32plus5, None), ValueString(StrX, None), ValueNull,
     ValueOptional(None, None), ValueOptional(Some(ValueInt(1, None)), Indexed),
     ValueUnion(ValueInt(7, None), None), ValueUnion(ValueOptional(None, None), None),
     ValueArray(<<ValueInt(1, Indexed)>>, None)}

OptionalSources ==
    OptionalElems \cup {ValueOptional(None, a) : a \in {None, Indexed}}
                  \cup {ValueOptional(Some(e), a) : e \in OptionalElems, a \in {None, Indexed}}

OptionalSchemas ==
    {SchemaOptional(s) :
        s \in {SchemaInt, SchemaLong, SchemaString, SchemaNull, SchemaArray(SchemaInt),
               SchemaOptional(SchemaInt), SchemaUnion(<<SchemaNull, SchemaInt>>),
               SchemaUnion(<<SchemaString, SchemaOptional(SchemaInt)>>)}}

\* ------------------------------------------------------------------ the program

VARIABLES
    value,      \* the source Value
    schema,     \* the reader Schema
    result,     \* Option<Result<Value, Error>>: what value.resolve(&schema) returned
    valid,      \* Option<bool>: what validate returned
    again,      \* Option<Result<Value, Error>>: what result.resolve(&schema) returned
    pc,         \* "start", "resolved", "validated", "done", "checked", "built"
    record,     \* Option<Record>: the builder Record::new(&schema) returned
    puts        \* the (field, value) pairs put into the builder so far

vars == <<value, schema, result, valid, again, pc, record, puts>>

Start ==
    /\ result = None /\ valid = None /\ again = None /\ pc = "start"
    /\ record = None /\ puts = <<>>

InitGeneral == value \in GeneralValues /\ schema \in GeneralSchemas /\ Start
InitBytes == value \in ByteArrays /\ schema = SchemaBytes /\ Start
InitEnum == value \in EnumSources /\ schema \in EnumSchemas /\ Start
InitUnion == value \in UnionSources /\ schema \in UnionSchemas /\ Start
InitRecord == value \in RecordSources /\ schema \in RecordSchemas /\ Start
InitAnnot == value \in AnnotSources /\ schema \in AnnotSchemas /\ Start
InitFixed == value \in FixedSources /\ schema \in FixedSchemas /\ Start
InitOptional == value \in OptionalSources /\ schema \in OptionalSchemas /\ Start
InitSet == value \in SetSources /\ schema = SchemaSet /\ Start
InitLru == value \in LruSources /\ schema \in LruSchemas /\ Start
InitInt == value \in IntSources /\ schema = SchemaInt /\ Start
InitBuilder == value = ValueNull /\ schema \in BuilderSchemas /\ Start

Init ==
    \/ InitGeneral \/ InitBytes \/ InitEnum \/ InitUnion \/ InitRecord \/ InitAnnot
    \/ InitFixed \/ InitOptional \/ InitSet \/ InitLru \/ InitInt

\* The results a call can return: on failure, one of the errors it can meet.
Outcomes(r) == IF r.ok THEN {r} ELSE {[ok |-> FALSE, errs |-> {e}] : e \in r.errs}

\* value.resolve(&schema)
Resolve ==
    /\ pc = "start"
    /\ result' \in {Some(r) : r \in Outcomes(resolve(value, schema))}
    /\ pc' = "resolved"
    /\ UNCHANGED <<value, schema, valid, again, record, puts>>

\* resolved.validate(&schema), on the value a successful resolve returned
Validate ==
    /\ pc = "resolved"
    /\ result[1].ok
    /\ valid' = Some(validate(result[1].val, schema))
    /\ pc' = "validated"
    /\ UNCHANGED <<value, schema, result, again, record, puts>>

\* resolved.resolve(&schema): the resolved value resolved once more
ResolveAgain ==
    /\ pc = "validated"
    /\ again' \in {Some(r) : r \in Outcomes(resolve(result[1].val, schema))}
    /\ pc' = "done"
    /\ UNCHANGED <<value, schema, result, valid, record, puts>>

\* value.validate(&schema), on the source value
ValidateSource ==
    /\ pc = "start"
    /\ valid' = Some(validate(value, schema))
    /\ pc' = "checked"
    /\ UNCHANGED <<value, schema, result, again, record, puts>>

Next == Resolve \/ Validate \/ ResolveAgain \/ ValidateSource

\* Record::new(&schema)
RecordNew ==
    /\ pc = "start"
    /\ record' = new(schema)
    /\ pc' = "built"
    /\ UNCHANGED <<value, schema, result, valid, again, puts>>

\* record.put(field, value)
RecordPut ==
    /\ pc = "built"
    /\ record # None
    /\ Len(puts) < MaxPuts
    /\ \E field \in PutNames, v \in PutArgs :
          /\ record' = Some(put(record[1], field, v))
          /\ puts' = Append(puts, <<field, v>>)
    /\ UNCHANGED <<value, schema, result, valid, again, pc>>

NextBuilder == RecordNew \/ RecordPut

Spec == Init /\ [][Next]_vars
SpecBytes == InitBytes /\ [][Next]_vars
SpecEnum == InitEnum /\ [][Next]_vars
SpecUnion == InitUnion /\ [][Next]_vars
SpecRecord == InitRecord /\ [][Next]_vars
SpecAnnot == InitAnnot /\ [][Next]_vars
SpecFixed == InitFixed /\ [][Next]_vars
SpecOptional == InitOptional /\ [][Next]_vars
SpecSet == InitSet /\ [][Next]_vars
SpecLru == InitLru /\ [][Next]_vars
SpecInt == InitInt /\ [][Next]_vars
SpecBuilder == InitBuilder /\ [][NextBuilder]_vars

\* ------------------------------------------------------------------ properties

\* Helpers of the properties below.


RECURSIVE StripAnn(_)
\* The value with every annotation removed.
StripAnn(v) ==
    CASE v.case = "Null" -> v
      [] v.case = "Union" -> [v EXCEPT !.ann = None, !.inner = StripAnn(v.inner)]
      [] v.case = "Array" ->
            [v EXCEPT !.ann = None, !.items = [i \in 1..Len(v.items) |-> StripAnn(v.items[i])]]
      [] v.case = "Map" -> [v EXCEPT !.ann = None, !.m = [k \in DOMAIN v.m |-> StripAnn(v.m[k])]]
      [] v.case = "Record" ->
            [v EXCEPT !.ann = None,
                      !.entries = [i \in 1..Len(v.entries) |->
                                     Entry(v.entries[i].name, StripAnn(v.entries[i].value))]]
      [] v.case = "Optional" ->
            [v EXCEPT !.ann = None, !.opt = IF v.opt = None THEN None ELSE Some(StripAnn(v.opt[1]))]
      [] OTHER -> [v EXCEPT !.ann = None]

RECURSIVE PlainUnannotated(_)
\* Every Int, Long, Float, Double, Bytes and Fixed inside the value is without
\* annotation.
PlainUnannotated(v) ==
    CASE v.case \in {"Int", "Long", "Float", "Double", "Bytes", "Fixed"} -> v.ann = None
      [] v.case = "Union" -> PlainUnannotated(v.inner)
      [] v.case = "Array" -> \A i \in 1..Len(v.items) : PlainUnannotated(v.items[i])
      [] v.case = "Map" -> \A k \in DOMAIN v.m : PlainUnannotated(v.m[k])
      [] v.case = "Record" -> \A i \in 1..Len(v.entries) : PlainUnannotated(v.entries[i].value)
      [] v.case = "Optional" -> v.opt = None \/ PlainUnannotated(v.opt[1])
      [] OTHER -> TRUE

Least(S) == CHOOSE i \in S : \A j \in S : i <= j

Greatest(S) == CHOOSE i \in S : \A j \in S : j <= i

\* What a Map or Record source holds under a name: the entry of a Map, the last
\* entry of that name of a Record, or nothing.
SourceOf(v, name) ==
    IF v.case = "Map"
    THEN IF name \in DOMAIN v.m THEN Some(v.m[name]) ELSE None
    ELSE LET at == {i \in 1..Len(v.entries) : v.entries[i].name = name} IN
         IF at = {} THEN None ELSE Some(v.entries[Greatest(at)].value)

MissingField == SchemaResolutionError("missing field in record")

NoMatchingBranch == SchemaResolutionError("Could not find matching type in union")

\* What a field of the reader schema must come to, resolved with the flag given:
\* the source's entry, else the default, else the missing-field error.
FieldOutcome(v, field, index) ==
    LET src == SourceOf(v, field.name) IN
    IF src # None THEN resolve_internal(src[1], field.schema, index)
    ELSE IF field.default # None
         THEN resolve_internal(JsonAvro(field.default[1]), field.schema, index)
         ELSE MissingField

IsRecordResolution ==
    pc = "resolved" /\ schema.kind = "Record" /\ value.case \in {"Map", "Record"}

\* ---- C1

\* C1 (as stated): whenever resolve returns a value, that value validates
\* against the schema it was resolved to, Union schemas included.
C1_ResolvedValidates == pc = "validated" => valid = Some(TRUE)

\* ---- C2

\* C2 (amended): resolving a Map or Record source against a Record schema gives
\* one entry per schema field, in schema order, each the source's entry of that
\* name (the last one, if a Record source repeats the name) resolved against the
\* field's schema, or the field's default resolved the same way when the source
\* has none; the call fails exactly when some field fails, and then with the
\* error of the first such field in schema order, which is the missing-field
\* error when that field has neither entry nor default.
C2_RecordResolution ==
    IsRecordResolution =>
        LET fields == schema.fields
            out == [i \in 1..Len(fields) |-> FieldOutcome(value, fields[i], fields[i].index)]
            bad == {i \in 1..Len(fields) : ~out[i].ok}
        IN IF bad = {}
           THEN /\ result[1].ok
                /\ result[1].val.case = "Record"
                /\ result[1].val.entries =
                       [i \in 1..Len(fields) |-> Entry(fields[i].name, out[i].val)]
           ELSE /\ ~result[1].ok
                /\ result[1].errs \subseteq out[Least(bad)].errs

\* C2 (as stated): the same, but the call fails with the missing-field error
\* whenever a field has neither entry nor default.
C2_MissingFieldAlwaysReported ==
    IsRecordResolution =>
        LET fields == schema.fields
            src == [i \in 1..Len(fields) |-> SourceOf(value, fields[i].name)]
        IN (\E i \in 1..Len(fields) : src[i] = None /\ fields[i].default = None)
               => result[1] = MissingField

\* The source has b before a and the schema a before b with a default for
\* neither; the result follows the schema, and a third source gives a default.
C2_Witness ==
    /\ IsRecordResolution
    /\ result[1].ok
    /\ Len(schema.fields) = 2
    /\ \E i \in 1..2 : SourceOf(value, schema.fields[i].name) = None
    /\ \E i \in 1..2 : SourceOf(value, schema.fields[i].name) # None
    /\ result[1].val.entries[1].name = schema.fields[1].name
    /\ result[1].val.entries[2].name = schema.fields[2].name

\* ---- C3

\* C3 (as stated): resolving the result of a successful resolve against the
\* same schema again succeeds, gives a value that validates, and gives the
\* same value up to annotations.
C3_Idempotent ==
    pc = "done" =>
        /\ again[1].ok
        /\ validate(again[1].val, schema)
        /\ StripAnn(again[1].val) = StripAnn(result[1].val)

\* ---- C4

\* The integer an array element stands for, if it is an Int or a Long (possibly
\* carried in a Union).
ElementInteger(e) ==
    LET x == IF e.case = "Union" THEN e.inner ELSE e IN
    CASE x.case = "Int" -> Some(I64FromI32(x.n))
      [] x.case = "Long" -> Some(x.l)
      [] OTHER -> None

\* C4 (as stated): an Array resolves to Bytes exactly when every element is an
\* Int or Long between 0 and 255, whatever its magnitude otherwise, and the
\* bytes are those integers in order.
C4_BytesFromArray ==
    pc = "resolved" /\ value.case = "Array" /\ schema = SchemaBytes =>
        LET ints == [i \in 1..Len(value.items) |-> ElementInteger(value.items[i])]
            fits == \A i \in 1..Len(value.items) :
                        ints[i] # None /\ ints[i][1].q = 0 /\ ints[i][1].r <= U8Max
        IN /\ result[1].ok <=> fits
           /\ result[1].ok =>
                  result[1].val = ValueBytes([i \in 1..Len(value.items) |-> ints[i][1].r], None)

\* ---- C5

\* C5: against an Enum schema with symbols S, a String s resolves exactly when
\* s is in S, an Enum(i, s) exactly when 0 <= i < |S| and s is in S; the result
\* is the Enum of s with the position of its first occurrence in S, whatever
\* index the source carried.
C5_EnumResolution ==
    pc = "resolved" /\ schema.kind = "Enum" /\ value.case \in {"String", "Enum"} =>
        LET S == schema.symbols
            at == {j \in 1..Len(S) : S[j] = value.s}
            accepted == at # {} /\ (value.case = "Enum" => value.i >= 0 /\ value.i < Len(S))
        IN /\ result[1].ok <=> accepted
           /\ result[1].ok => result[1].val = ValueEnum(Least(at) - 1, value.s, None)

\* An Enum arrives with an index that is in range and not the symbol's own.
C5_Witness ==
    /\ pc = "resolved" /\ schema.kind = "Enum" /\ value.case = "Enum"
    /\ result[1].ok
    /\ result[1].val.i # value.i

\* ---- C6

\* C6: against a Union schema the value, less one Union wrapper if it has one,
\* is resolved against the first branch in declaration order whose kind is the
\* value's; with no such branch the call fails with the no-matching-branch
\* error.
C6_UnionFirstMatch ==
    pc = "resolved" /\ schema.kind = "Union" =>
        LET v == IF value.case = "Union" THEN value.inner ELSE value
            matching == {i \in 1..Len(schema.schemas) :
                            SchemaKindOfSchema(schema.schemas[i]) = SchemaKindOfValue(v)}
        IN IF matching = {}
           THEN result[1] = NoMatchingBranch
           ELSE result[1] \in Outcomes(resolve(v, schema.schemas[Least(matching)]))

\* A wrapped value meets a union whose second branch is the matching one.
C6_Witness ==
    /\ pc = "resolved" /\ schema.kind = "Union" /\ value.case = "Union"
    /\ Len(schema.schemas) = 2
    /\ SchemaKindOfSchema(schema.schemas[1]) # SchemaKindOfValue(value.inner)
    /\ SchemaKindOfSchema(schema.schemas[2]) = SchemaKindOfValue(value.inner)
    /\ result[1].ok

\* ---- C7

\* C7 (amended): a Union value Union(x) with x not itself a Union resolves
\* against any schema exactly as x does; against a Union schema the value is
\* handed to union matching as it stands, wrapper included, and not unwrapped
\* before dispatch.
C7_UnionSourceUnwrapped ==
    pc = "resolved" /\ value.case = "Union" =>
        /\ value.inner.case # "Union" => result[1] \in Outcomes(resolve(value.inner, schema))
        /\ schema.kind = "Union" => result[1] \in Outcomes(resolve_union(value, schema, FALSE))

\* C7 (as stated): Union(x) resolves against any non-Union schema exactly as x
\* does.
C7_AnyUnionSourceUnwrapped ==
    pc = "resolved" /\ value.case = "Union" /\ schema.kind # "Union" =>
        result[1] \in Outcomes(resolve(value.inner, schema))

\* A wrapped Int is resolved to a Long.
C7_Witness ==
    /\ pc = "resolved" /\ value.case = "Union" /\ value.inner.case = "Int"
    /\ schema = SchemaLong
    /\ result[1].ok /\ result[1].val.case = "Long"

\* ---- C8

AnnotatedFieldKinds ==
    {"Boolean", "String", "Enum", "Array", "Map", "Record", "Date", "Set", "LruSet", "Optional"}

\* C8 (as stated): in a resolved record, the value of a field of kind Boolean,
\* String, Enum, Array, Map, Record, Date, Set, LruSet or Optional carries an
\* annotation exactly when the field's own index flag is set.
C8_FieldAnnotation ==
    IsRecordResolution /\ result[1].ok =>
        \A i \in 1..Len(schema.fields) :
            schema.fields[i].schema.kind \in AnnotatedFieldKinds =>
                ((result[1].val.entries[i].value.ann # None) <=> schema.fields[i].index)

\* ---- C9

\* C9: no Int, Long, Float, Double, Bytes or Fixed in a resolved value carries
\* an annotation, and the value of a Union-typed record field is what the
\* field's source resolves to with the flag off, whatever the field's flag.
C9_NeverAnnotated ==
    pc = "resolved" /\ result[1].ok =>
        /\ PlainUnannotated(result[1].val)
        /\ IsRecordResolution =>
              \A i \in 1..Len(schema.fields) :
                  schema.fields[i].schema.kind = "Union" =>
                      Ok(result[1].val.entries[i].value)
                          \in Outcomes(FieldOutcome(value, schema.fields[i], FALSE))

\* A String reaches a Union-typed field whose flag is set and stays bare.
C9_Witness ==
    /\ IsRecordResolution /\ result[1].ok
    /\ Len(schema.fields) = 1
    /\ schema.fields[1].schema.kind = "Union"
    /\ schema.fields[1].index
    /\ result[1].val.entries[1].value.case = "String"
    /\ result[1].val.entries[1].value.ann = None

\* ---- C10

\* C10: a Record value validates against a Record schema exactly when both
\* have the same number of entries and, position by position, the names are
\* equal and the entry's value validates against the field's schema.
C10_RecordValidate ==
    pc = "checked" /\ value.case = "Record" /\ schema.kind = "Record" =>
        valid[1] =
            (/\ Len(value.entries) = Len(schema.fields)
             /\ \A i \in 1..Len(schema.fields) :
                   /\ i <= Len(value.entries)
                   /\ value.entries[i].name = schema.fields[i].name
                   /\ validate(value.entries[i].value, schema.fields[i].schema))

\* A record with one entry more than the schema's fields, agreeing on the
\* fields there are, is refused.
C10_Witness ==
    /\ pc = "checked" /\ value.case = "Record" /\ schema.kind = "Record"
    /\ Len(schema.fields) = 1 /\ Len(value.entries) = 2
    /\ value.entries[1].name = schema.fields[1].name
    /\ validate(value.entries[1].value, schema.fields[1].schema)
    /\ valid = Some(FALSE)

\* ---- C11

\* C11: against an Enum schema with symbols S, validate accepts Enum(i, s)
\* exactly when 0 <= i < |S| and the symbol at position i of S is s, and
\* accepts String(s) exactly when s occurs in S.
C11_EnumValidate ==
    pc = "checked" /\ schema.kind = "Enum" /\ value.case \in {"String", "Enum"} =>
        LET S == schema.symbols IN
        valid[1] = IF value.case = "Enum"
                   THEN \E j \in 1..Len(S) : j = value.i + 1 /\ S[j] = value.s
                   ELSE \E j \in 1..Len(S) : S[j] = value.s

\* An Enum whose index is in range and whose symbol is in S, at another
\* position, is refused.
C11_Witness ==
    /\ pc = "checked" /\ schema.kind = "Enum" /\ value.case = "Enum"
    /\ value.i >= 0 /\ value.i < Len(schema.symbols)
    /\ \E j \in 1..Len(schema.symbols) : schema.symbols[j] = value.s
    /\ valid = Some(FALSE)

\* ---- C12

\* C12 (as stated): a Fixed value that validates against a Fixed schema of size
\* n, or that a successful resolve against it returns, has exactly n bytes and
\* declares size n; a Fixed value of another length is refused by both.
C12_FixedLength ==
    value.case = "Fixed" /\ schema.kind = "Fixed" =>
        /\ pc = "checked" /\ valid = Some(TRUE) =>
              Len(value.bytes) = schema.size /\ value.size = schema.size
        /\ pc = "resolved" /\ result[1].ok =>
              /\ result[1].val.case = "Fixed"
              /\ Len(result[1].val.bytes) = schema.size
              /\ result[1].val.size = schema.size

\* ---- C13

\* The presence state resolve_optional sees: that of an Optional source, and
\* present for a source of any other case (a Union source having lost its
\* wrapper before dispatch).
PresenceOf(v) ==
    LET x == IF v.case = "Union" THEN v.inner ELSE v IN
    IF x.case = "Optional" THEN x.opt ELSE Some(x)

NestedAbsence(v) ==
    /\ v.case = "Optional" /\ v.opt # None
    /\ v.opt[1].case = "Optional" /\ v.opt[1].opt = None

\* C13 (as stated): against Optional(inner), an absent Optional resolves to an
\* absent Optional; a present Optional or a bare value x resolves to
\* Optional(Some(r)) with r what x resolves to against inner, and fails when x
\* fails; with inner not itself Optional the result is never
\* Optional(Some(Optional(None))).
C13_OptionalResolution ==
    pc = "resolved" /\ schema.kind = "Optional" =>
        LET v == PresenceOf(value) IN
        /\ v = None => result[1] = Ok(ValueOptional(None, None))
        /\ v # None =>
              LET r == resolve(v[1], schema.inner) IN
              result[1] \in Outcomes(IF r.ok THEN Ok(ValueOptional(Some(r.val), None)) ELSE r)
        /\ schema.inner.kind # "Optional" /\ result[1].ok => ~NestedAbsence(result[1].val)

\* ---- C14

\* C14: an Array resolves against the Set schema exactly when every element is
\* itself a String, and then gives the set of the elements' strings, repeated
\* ones once; a Set resolves to a Set of the same members.
C14_SetResolution ==
    pc = "resolved" /\ schema = SchemaSet =>
        /\ value.case = "Array" =>
              LET strings == \A i \in 1..Len(value.items) : value.items[i].case = "String" IN
              /\ result[1].ok <=> strings
              /\ result[1].ok =>
                    result[1].val = ValueSet({value.items[i].s : i \in 1..Len(value.items)}, None)
        /\ value.case = "Set" => result[1] = Ok(ValueSet(value.set, None))

\* An array that repeats a string resolves to a set of one member.
C14_Witness ==
    /\ pc = "resolved" /\ schema = SchemaSet /\ value.case = "Array"
    /\ Len(value.items) = 2
    /\ result[1].ok
    /\ Cardinality(result[1].val.set) = 1

\* ---- C15

\* The LruValue a value of a Map source must come to: its two fields resolved
\* against the {access_time, count} sub-schema, an absent one being 0; nothing
\* when the value is no Map or Record or a field does not resolve.
ExpectedLruValue(v) ==
    LET x == IF v.case = "Union" THEN v.inner ELSE v IN
    IF x.case \notin {"Map", "Record"} THEN None
    ELSE LET access_time == FieldOutcome(x, LRU_VALUE_SCHEMA.fields[1], FALSE)
             count == FieldOutcome(x, LRU_VALUE_SCHEMA.fields[2], FALSE)
         IN IF access_time.ok /\ count.ok
            THEN Some(LruValue(access_time.val.l, count.val.l))
            ELSE None

\* C15: against LruSet(limit) the result carries the schema's limit; an LruSet
\* source keeps its entries; a Map source keeps its keys, each value becoming
\* the LruValue it resolves to against the two-field sub-schema, and the call
\* fails when one of them does not resolve.
C15_LruSetResolution ==
    pc = "resolved" /\ schema.kind = "LruSet" =>
        /\ value.case = "LruSet" =>
              result[1] = Ok(ValueLruSet(value.lru, schema.lru_limit, None))
        /\ value.case = "Map" =>
              LET expected == [key \in DOMAIN value.m |-> ExpectedLruValue(value.m[key])] IN
              /\ result[1].ok <=> \A key \in DOMAIN value.m : expected[key] # None
              /\ result[1].ok =>
                    result[1].val =
                        ValueLruSet([key \in DOMAIN value.m |-> expected[key][1]],
                                    schema.lru_limit, None)

\* An LruSet source under another limit comes back under the schema's.
C15_Witness ==
    /\ pc = "resolved" /\ schema.kind = "LruSet" /\ value.case = "LruSet"
    /\ value.limit # schema.lru_limit
    /\ value.lru # <<>>
    /\ result[1].ok
    /\ result[1].val.limit = schema.lru_limit
    /\ result[1].val.lru = value.lru

\* ---- C16

\* The names of the entries of a Map or Record source.
SourceNames(v) ==
    IF v.case = "Map" THEN DOMAIN v.m ELSE {v.entries[i].name : i \in 1..Len(v.entries)}

\* C16 (as stated): when a Map or Record source resolves against a Record
\* schema, every entry of the source has an entry of its name in the result.
C16_NoEntryDropped ==
    IsRecordResolution /\ result[1].ok =>
        \A name \in SourceNames(value) :
            \E i \in 1..Len(result[1].val.entries) : result[1].val.entries[i].name = name

\* ---- C17

\* C17 (as stated): every failure resolve returns is a SchemaResolutionError,
\* whatever its cause.
C17_SingleErrorKind ==
    pc = "resolved" /\ ~result[1].ok =>
        \A e \in result[1].errs : e.kind = "SchemaResolutionError"

\* ---- C18

\* C18: a Long x always resolves against Int, to the Int y with the low 32 bits
\* of x: the low 31 bits of y are those of x, y is negative exactly when bit 31
\* of x is set, and y widens back to x when x fits an i32; an Int resolves to
\* itself.
C18_LongToInt ==
    pc = "resolved" /\ schema = SchemaInt =>
        /\ value.case = "Long" =>
              /\ result[1].ok
              /\ result[1].val.case = "Int"
              /\ result[1].val.ann = None
              /\ LET x == value.l
                     y == result[1].val.n
                 IN /\ (IF y >= 0 THEN y ELSE (y + MaxI32) + 1) = x.r
                    /\ y < 0 <=> x.q % 2 = 1
                    /\ x.q \in {0, -1} => I64FromI32(y) = x
        /\ value.case = "Int" => result[1] = Ok(ValueInt(value.n, None))

\* 2^32 + 5 resolves to 5.
C18_Witness ==
    /\ pc = "resolved" /\ schema = SchemaInt
    /\ value.case = "Long" /\ value.l = Long2p32plus5
    /\ result[1] = Ok(ValueInt(5, None))

\* ---- C19

\* The value last put under a name, Null when nothing was.
LastPut(name) ==
    LET at == {k \in 1..Len(puts) : puts[k][1] = name} IN
    IF at = {} THEN ValueNull
    ELSE LET arg == puts[Greatest(at)][2] IN
         IF arg.to_avro = "Value" THEN arg.v ELSE JsonAvro(arg.json)

\* C19: a builder made from a record schema holds, after any puts, one entry
\* per field of the schema, under the fields' names and in their order, each
\* holding the value last put under its name and Null when none was; a put
\* under a name the schema does not know changes nothing; a schema that is no
\* record gives no builder.
C19_RecordBuilder ==
    pc = "built" =>
        IF schema.kind # "Record" THEN record = None
        ELSE /\ record # None
             /\ record[1].fields =
                    [i \in 1..Len(schema.fields) |->
                        Entry(schema.fields[i].name, LastPut(schema.fields[i].name))]

\* Two puts, one under a field's name and one under a name the schema does not
\* know, into a builder of two fields: one field holds the value, the other
\* still Null.
C19_Witness ==
    /\ pc = "built" /\ schema.kind = "Record" /\ Len(schema.fields) = 2
    /\ Len(puts) = 2
    /\ puts[1][1] = schema.fields[2].name
    /\ puts[2][1] \notin {schema.fields[i].name : i \in 1..2}
    /\ record[1].fields[1].value = ValueNull
    /\ record[1].fields[2].value # ValueNull

\* ---- C20

\* C20: the outcome of resolve is that of the same source with every
\* annotation removed, so two sources that differ in annotations only, at any
\* depth, both fail or both succeed with the same value.
C20_AnnotationIndependent ==
    pc = "resolved" =>
        LET bare == resolve(StripAnn(value), schema) IN
        /\ result[1].ok <=> bare.ok
        /\ result[1].ok => result[1].val = bare.val

\* A source with an annotation below its root resolves.
C20_Witness ==
    /\ pc = "resolved" /\ result[1].ok
    /\ value.case \in {"Array", "Map", "Record"}
    /\ value.ann = None
    /\ StripAnn(value) # value

====
